---- MODULE Spec2Model ----
(***************************************************************************)
(* Model of ugt_fwtools/simulation.py: the masks of the modules and the    *)
(* partition of the test vector, the run coordinator (one thread per       *)
(* module running run_vsim, throttled by the running.lock marker file) and *)
(* the result aggregation and verdict of run_simulation_questa.            *)
(***************************************************************************)
EXTENDS Integers, Sequences, FiniteSets, TLC

(***************************************************************************)
(* Bounds of the model.                                                    *)
(***************************************************************************)
\* number of modules of the menu (menu.n_modules)
n_modules == 2
\* number of trigger bits; the code uses 512 (simulation.py:81)
max_algorithms == 2
\* largest firing count of a CountEntry
MaxCount == 1
\* largest number of CountEntry records in one module's JSON artifact
MaxEntries == 1
\* largest number of lines of the test vector file
MaxLines == 1
\* width of the hex field written by the partitioner; the code uses 128
\* (simulation.py:105)
HexWidth == 1
\* largest number of lines of a source file handed to the partitioner
MaxFileLines == 2

Modules == 0 .. (n_modules - 1)
Bits == 0 .. (max_algorithms - 1)
Counts == 0 .. MaxCount

RECURSIVE Pow2(_)
Pow2(k) == IF k = 0 THEN 1 ELSE 2 * Pow2(k - 1)

\* values of the hex field of a test vector line
Values == 0 .. (Pow2(max_algorithms) - 1)

\* sequences over S of length at most n
SeqUpTo(S, n) == UNION {[1 .. k -> S] : k \in 0 .. n}

(***************************************************************************)
(* Inputs: the menu, the JSON artifacts and the test vector.               *)
(***************************************************************************)
IGNORED_ALGOS == {"L1_FirstBunchInTrain", "L1_SecondBunchInTrain"}

Names == {"L1_FirstBunchInTrain", "L1_SingleMuCosmics"}

Algorithm == [index : Bits, name : Names, module_id : Modules]

\* menus: sets of algorithms with unique index
Menus == {m \in SUBSET Algorithm : \A a, b \in m : a.index = b.index => a = b}

\* menu.algorithms.byIndex(i): the algorithm with that index, or None
None == [index |-> -1, name |-> "None", module_id |-> -1]

byIndex(m, i) == IF \E a \in m : a.index = i
                 THEN CHOOSE a \in m : a.index = i
                 ELSE None

\* menu.algorithms.byModuleId(id)
byModuleId(m, id) == {a \in m : a.module_id = id}

CountEntry == [algo_index : Bits, algo_sim : Counts, algo_tv : Counts]

\* a per-bx mismatch record: the bits fired by the simulation and by the
\* reference in that bx (the hex fields algos_sim and algos_tv)
ErrorEntry == [algos_sim : SUBSET Bits, algos_tv : SUBSET Bits]

\* the per-bx records the model enumerates: one bit fired by the simulation
\* only, or one bit fired by the reference only
ErrorEntries ==
    {[algos_sim |-> {b}, algos_tv |-> {}] : b \in Bits}
    \cup {[algos_sim |-> {}, algos_tv |-> {b}] : b \in Bits}

JsonRecord == [errors : SeqUpTo(ErrorEntries, 1), counts : SeqUpTo(CountEntry, MaxEntries)]

\* results_json[m] is <<>> while the artifact does not exist and <<j>> when
\* it holds the JSON object j
NoFile == <<>>

File(j) == <<j>>

(***************************************************************************)
(* The text of a test vector file.  A line is the list of its tokens       *)
(* (line.strip().split()), a token is the list of its characters.          *)
(***************************************************************************)
\* the digits format(v, "x") writes
HexDigits ==
    <<"0", "1", "2", "3", "4", "5", "6", "7", "8", "9", "a", "b", "c", "d", "e", "f">>

\* the digits int(s, 16) reads besides
UpperHexDigits ==
    <<"0", "1", "2", "3", "4", "5", "6", "7", "8", "9", "A", "B", "C", "D", "E", "F">>

IsHexDigit(c) ==
    \E k \in 1 .. Len(HexDigits) : HexDigits[k] = c \/ UpperHexDigits[k] = c

HexDigitValue(c) ==
    (CHOOSE k \in 1 .. Len(HexDigits) : HexDigits[k] = c \/ UpperHexDigits[k] = c) - 1

\* whether int(token, 16) returns: it raises ValueError on a token with a
\* character that is no digit
IsHex(token) == \A k \in 1 .. Len(token) : IsHexDigit(token[k])

\* int(token, 16) of a token of digits
RECURSIVE int16_from(_, _, _)
int16_from(token, k, value) ==
    IF k > Len(token) THEN value
    ELSE int16_from(token, k + 1, value * Len(HexDigits) + HexDigitValue(token[k]))

int16(token) == int16_from(token, 1, 0)

\* format(i, "x"): the lowercase digits of i, most significant first
RECURSIVE ToHex(_)
ToHex(i) ==
    IF i < Len(HexDigits) THEN <<HexDigits[i + 1]>>
    ELSE Append(ToHex(i \div Len(HexDigits)), HexDigits[(i % Len(HexDigits)) + 1])

\* zero padding on the left up to width n ("0128x")
RECURSIVE ZeroFill(_, _)
ZeroFill(s, n) == IF Len(s) >= n THEN s ELSE ZeroFill(<<"0">> \o s, n)

\* format(i, "0128x") with the width of the model
format0x(i) == ZeroFill(ToHex(i), HexWidth)

\* the line of a well-formed test vector whose hex field holds v
TvLine(v) == <<format0x(v), (IF v # 0 THEN <<"1">> ELSE <<"0">>)>>

\* the test vectors of the aggregation: well-formed lines, one per value
TestVectors == SeqUpTo({TvLine(v) : v \in Values}, MaxLines)

\* the tokens in the place of the hex field of a source line: numbers of
\* one and two digits, in upper case too, and a token that is no number
Tokens == {<<"0">>, <<"1">>, <<"F">>, <<"1", "F">>, <<"g">>}

\* source lines: no token (an empty line), one token, the hex field and the
\* fin-or flag (a flag 0 on any field, a flag 1 on a field that is zero and
\* on one that is not), or these two after a leading column
SourceLines ==
    {<<>>, <<<<"1">>>>}
    \cup {<<t, <<"0">>>> : t \in Tokens}
    \cup {<<t, <<"1">>>> : t \in {<<"0">>, <<"F">>}}
    \cup {<<<<"7">>, t, <<"1">>>> : t \in {<<"1", "F">>, <<"g">>}}

SourceFiles == SeqUpTo(SourceLines, MaxFileLines)

(***************************************************************************)
(* Pure helpers of simulation.py.                                          *)
(***************************************************************************)
Reverse(s) == [k \in 1 .. Len(s) |-> s[Len(s) + 1 - k]]

\* "{0:b}".format(i): the binary digits of i, most significant first
RECURSIVE ToBin(_)
ToBin(i) == IF i < 2 THEN <<i>> ELSE Append(ToBin(i \div 2), i % 2)

\* zero padding on the left up to width n ("{0:0{1}b}")
RECURSIVE ZeroPad(_, _)
ZeroPad(s, n) == IF Len(s) >= n THEN s ELSE ZeroPad(<<0>> \o s, n)

\* bitfield without the reversal: the most significant bit comes first
bitfield_msbfirst(i, n) == ZeroPad(ToBin(i), n)

\* bitfield(i, n): element k + 1 of the result is bit k of i
bitfield(i, n) == Reverse(ZeroPad(ToBin(i), n))

\* a zip that keeps the second list instead of adding it to the first
ZipAdd_second(a, b) ==
    LET n == IF Len(a) <= Len(b) THEN Len(a) ELSE Len(b)
    IN  [k \in 1 .. n |-> b[k]]

\* [x + y for x, y in zip(a, b)]: zip stops at the shorter list
ZipAdd(a, b) ==
    LET n == IF Len(a) <= Len(b) THEN Len(a) ELSE Len(b)
    IN  [k \in 1 .. n |-> a[k] + b[k]]

\* colums[-2] and colums[-1] of a line of at least two tokens
HexField(colums) == colums[Len(colums) - 1]

FinOrField(colums) == colums[Len(colums)]

\* trigger_list(testvectorfile): per bit, the number of lines with that bit
\* in the hex field (the file is one that write_testvector accepted)
RECURSIVE trigger_list_from(_, _, _)
trigger_list_from(tvf, l, out_list) ==
    IF l > Len(tvf) THEN out_list
    ELSE trigger_list_from(tvf, l + 1,
             ZipAdd(out_list, bitfield(int16(HexField(tvf[l])), max_algorithms)))

trigger_list(tvf) == trigger_list_from(tvf, 1, [k \in 1 .. max_algorithms |-> 0])

\* an & that keeps its left operand
BitAnd_left(a, b) == a

\* the operators & and | of Python on integers that are not negative
RECURSIVE BitAnd(_, _)
BitAnd(a, b) ==
    IF a = 0 \/ b = 0 THEN 0
    ELSE (a % 2) * (b % 2) + 2 * BitAnd(a \div 2, b \div 2)

RECURSIVE BitOr(_, _)
BitOr(a, b) ==
    IF a = 0 THEN b
    ELSE IF b = 0 THEN a
    ELSE (IF a % 2 = 1 \/ b % 2 = 1 THEN 1 ELSE 0) + 2 * BitOr(a \div 2, b \div 2)

\* get_mask_from that sets every bit up to the index of the algorithm
RECURSIVE get_mask_from_upto(_, _)
get_mask_from_upto(algos, mask) ==
    IF algos = {} THEN mask
    ELSE LET algo == CHOOSE a \in algos : TRUE
         IN  get_mask_from_upto(algos \ {algo},
                                BitOr(mask, Pow2(algo.index + 1) - 1))

\* Module.get_mask: the loop over menu.algorithms.byModuleId(self.id)
RECURSIVE get_mask_from(_, _)
get_mask_from(algos, mask) ==
    IF algos = {} THEN mask
    ELSE LET algo == CHOOSE a \in algos : TRUE
         IN  get_mask_from(algos \ {algo}, BitOr(mask, Pow2(algo.index)))

\* get_mask over all the algorithms of the menu
get_mask_all(m, id) == get_mask_from(m, 0)

get_mask(m, id) == get_mask_from(byModuleId(m, id), 0)

\* the exception a line raises in write_testvector: colums[-2] of a line
\* with fewer than two tokens, int() of a token that is no hex number
LineError(colums) ==
    IF Len(colums) < 2 THEN "IndexError"
    ELSE IF ~IsHex(HexField(colums)) THEN "ValueError"
    ELSE "none"

\* MaskedLine that does not apply the mask to the hex field
MaskedLine_nomask(mask, colums) ==
    LET mask_trigger == BitAnd(int16(HexField(colums)), mask)
    IN  [k \in 1 .. Len(colums) |->
            IF k = Len(colums) - 1 THEN format0x(int16(HexField(colums)))
            ELSE IF k = Len(colums)
                 THEN (IF mask_trigger # 0 THEN <<"1">> ELSE <<"0">>)
                 ELSE colums[k]]

\* MaskedLine that keeps the fin-or flag of the source line
MaskedLine_keepfinor(mask, colums) ==
    LET mask_trigger == BitAnd(int16(HexField(colums)), mask)
    IN  [k \in 1 .. Len(colums) |->
            IF k = Len(colums) - 1 THEN format0x(mask_trigger)
            ELSE colums[k]]

\* lines 103-107: the line with its last two tokens replaced
MaskedLine(mask, colums) ==
    LET mask_trigger == BitAnd(int16(HexField(colums)), mask)
    IN  [k \in 1 .. Len(colums) |->
            IF k = Len(colums) - 1 THEN format0x(mask_trigger)
            ELSE IF k = Len(colums)
                 THEN (IF mask_trigger # 0 THEN <<"1">> ELSE <<"0">>)
                 ELSE colums[k]]

\* write_testvector_from that writes every line twice
RECURSIVE write_testvector_from_twice(_, _, _, _)
write_testvector_from_twice(mask, tvf, l, opf) ==
    IF l > Len(tvf) THEN [opf |-> opf, error |-> "none"]
    ELSE IF LineError(tvf[l]) # "none"
         THEN [opf |-> opf, error |-> LineError(tvf[l])]
         ELSE write_testvector_from_twice(mask, tvf, l + 1,
                  opf \o <<MaskedLine(mask, tvf[l]), MaskedLine(mask, tvf[l])>>)

\* write_testvector(mask, testvectorfile, new_testvector): opf is what the
\* destination file holds when the function returns or raises; the file is
\* opened for writing before the first line is read and each line is
\* written before the next one is read
RECURSIVE write_testvector_from(_, _, _, _)
write_testvector_from(mask, tvf, l, opf) ==
    IF l > Len(tvf) THEN [opf |-> opf, error |-> "none"]
    ELSE IF LineError(tvf[l]) # "none"
         THEN [opf |-> opf, error |-> LineError(tvf[l])]
         ELSE write_testvector_from(mask, tvf, l + 1,
                                    Append(opf, MaskedLine(mask, tvf[l])))

write_testvector(mask, tvf) == write_testvector_from(mask, tvf, 1, <<>>)

\* check_algocount(liste): the (position, count) pairs of the non-zero
\* counts, in list order; the single pair (-1, 0) when there is none
RECURSIVE check_algocount_from(_, _, _)
check_algocount_from(liste, index, aus_liste) ==
    IF index >= Len(liste)
    THEN IF Len(aus_liste) = 0 THEN <<<<-1, 0>>>> ELSE aus_liste
    ELSE check_algocount_from(liste, index + 1,
             IF liste[index + 1] # 0
             THEN Append(aus_liste, <<index, liste[index + 1]>>)
             ELSE aus_liste)

\* check_algocount that keeps the zero counts
check_algocount_keepzero(liste) ==
    IF Len(liste) = 0 THEN <<<<-1, 0>>>>
    ELSE [k \in 1 .. Len(liste) |-> <<k - 1, liste[k]>>]

\* check_algocount with the pair (0, 0) for a list without non-zero count
check_algocount_zerosentinel(liste) ==
    LET aus_liste == check_algocount_from(liste, 0, <<>>)
    IN  IF aus_liste = <<<<-1, 0>>>> THEN <<<<0, 0>>>> ELSE aus_liste

check_algocount(liste) == check_algocount_from(liste, 0, <<>>)

\* check_multiple(liste)
check_multiple(liste) == Len(liste) > 1

(***************************************************************************)
(* Python dictionaries keyed by algorithm index: functions whose domain is *)
(* the set of keys.                                                        *)
(***************************************************************************)
EmptyDict == <<>>

HasKey(d, k) == k \in DOMAIN d

\* d.setdefault(k, []).append(v)
DictAppend(d, k, v) ==
    IF HasKey(d, k)
    THEN [d EXCEPT ![k] = Append(@, v)]
    ELSE [x \in (DOMAIN d) \cup {k} |-> IF x = k THEN <<v>> ELSE d[x]]

\* the loop over one module's counts (lines 450-457), for one of the two
\* dictionaries: field is "algo_sim" or "algo_tv"
RECURSIVE AppendCounts(_, _, _, _)
AppendCounts(d, counts, c, field) ==
    IF c > Len(counts) THEN d
    ELSE AppendCounts(DictAppend(d, counts[c].algo_index, counts[c][field]),
                      counts, c + 1, field)

\* the loop over the modules (lines 443-457)
RECURSIVE CollectCounts(_, _, _, _)
CollectCounts(d, jsons, m, field) ==
    IF m >= n_modules THEN d
    ELSE CollectCounts(AppendCounts(d, jsons[m][1].counts, 1, field),
                       jsons, m + 1, field)

\* error_jsonf[module.id] after the loop of lines 445-448: the whole JSON
\* object when its errors list is not empty, the empty dict otherwise
NoJson == [errors |-> <<>>, counts |-> <<>>]

ErrorJson(jsonf) == IF Len(jsonf.errors) > 0 THEN jsonf ELSE NoJson

\* Before the conversion pass an element of algos_sim[index] is a count and
\* after it a (position, count) pair.  The variables hold a count c as the
\* 1-tuple <<c>>, so that the values before and after the pass can be compared.
Boxed(d) == [k \in DOMAIN d |-> [j \in 1 .. Len(d[k]) |-> <<d[k][j]>>]]

Unboxed(d) == [k \in DOMAIN d |-> [j \in 1 .. Len(d[k]) |-> d[k][j][1]]]

\* range(len(d)) is a set of keys of d (lines 459, 462, 544, 552)
RangeLenInKeys(d) == \A index \in 0 .. (Cardinality(DOMAIN d) - 1) : HasKey(d, index)

\* lines 459-463
ConvertDict(d) == [k \in DOMAIN d |-> check_algocount(d[k])]

\* sorted(menu.algorithms, key=index): the indices in ascending order
RECURSIVE SortedIndices(_)
SortedIndices(S) ==
    IF S = {} THEN <<>>
    ELSE LET lo == CHOOSE x \in S : \A y \in S : x <= y
         IN  <<lo>> \o SortedIndices(S \ {lo})

(***************************************************************************)
(* The loops of the aggregation, as functions of the values they read.     *)
(***************************************************************************)
\* VerdictStep with the error counter left alone on a count mismatch
VerdictStep_nocount(acc, algo, ignore, tvd, simd) ==
    LET isIgnored == (algo.name \in IGNORED_ALGOS) /\ ignore
    IN  IF acc.raised THEN acc
        ELSE IF ~HasKey(tvd, algo.index) \/ ~HasKey(simd, algo.index)
        THEN [acc EXCEPT !.raised = TRUE]
        ELSE LET tv  == tvd[algo.index][1][2]
                 sim == simd[algo.index][1][2]
                 isError == ~isIgnored /\ tv # sim
                 result == IF isIgnored THEN "IGNORE"
                           ELSE IF isError THEN "ERROR" ELSE "OK"
             IN  [success |-> IF isError THEN FALSE ELSE acc.success,
                  err_cnt |-> acc.err_cnt,
                  ignored_algos |-> IF isIgnored
                                    THEN Append(acc.ignored_algos, algo.index)
                                    ELSE acc.ignored_algos,
                  log |-> Append(acc.log, <<"row", algo.module_id, algo.index,
                                            algo.name, tv, sim, result>>),
                  raised |-> FALSE]

\* one iteration of the loop of lines 489-507 for the algorithm algo; acc is
\* [success, err_cnt, ignored_algos, log, raised].  The lookup of
\* algos_tv[algo.index] raises KeyError when the index is no key.
VerdictStep(acc, algo, ignore, tvd, simd) ==
    LET isIgnored == (algo.name \in IGNORED_ALGOS) /\ ignore
    IN  IF acc.raised THEN acc
        ELSE IF ~HasKey(tvd, algo.index) \/ ~HasKey(simd, algo.index)
        THEN [acc EXCEPT !.raised = TRUE,
                         !.ignored_algos =
                             IF isIgnored THEN Append(@, algo.index) ELSE @]
        ELSE LET tv  == tvd[algo.index][1][2]
                 sim == simd[algo.index][1][2]
                 isError == ~isIgnored /\ tv # sim
                 result == IF isIgnored THEN "IGNORE"
                           ELSE IF isError THEN "ERROR" ELSE "OK"
             IN  [success |-> IF isError THEN FALSE ELSE acc.success,
                  err_cnt |-> IF isError THEN acc.err_cnt + 1 ELSE acc.err_cnt,
                  ignored_algos |-> IF isIgnored
                                    THEN Append(acc.ignored_algos, algo.index)
                                    ELSE acc.ignored_algos,
                  log |-> Append(acc.log, <<"row", algo.module_id, algo.index,
                                            algo.name, tv, sim, result>>),
                  raised |-> FALSE]

RECURSIVE VerdictLoopFrom(_, _, _, _, _, _, _)
VerdictLoopFrom(acc, m, order, k, ignore, tvd, simd) ==
    IF k > Len(order) THEN acc
    ELSE VerdictLoopFrom(VerdictStep(acc, byIndex(m, order[k]), ignore, tvd, simd),
                         m, order, k + 1, ignore, tvd, simd)

\* lines 485-507
VerdictLoop(m, ignore, tvd, simd, log) ==
    VerdictLoopFrom([success |-> TRUE, err_cnt |-> 0, ignored_algos |-> <<>>,
                     log |-> log, raised |-> FALSE],
                    m, SortedIndices({a.index : a \in m}), 1, ignore, tvd, simd)

InList(x, liste) == \E k \in 1 .. Len(liste) : liste[k] = x

\* CountMismatches that counts the entries of the ignored indices too
RECURSIVE CountMismatches_all(_, _, _)
CountMismatches_all(counts, c, ignored) ==
    IF c > Len(counts) THEN 0
    ELSE (IF counts[c].algo_tv # counts[c].algo_sim THEN 1 ELSE 0)
         + CountMismatches_all(counts, c + 1, ignored)

\* lines 514-518: the entries of jsonf["counts"] that are not ignored and
\* whose two counts differ
RECURSIVE CountMismatches(_, _, _)
CountMismatches(counts, c, ignored) ==
    IF c > Len(counts) THEN 0
    ELSE (IF ~InList(counts[c].algo_index, ignored)
             /\ counts[c].algo_tv # counts[c].algo_sim
          THEN 1 ELSE 0) + CountMismatches(counts, c + 1, ignored)

\* lines 511-523; acc is [json_err_msg, log]
RECURSIVE JsonScanFrom(_, _, _, _)
JsonScanFrom(acc, ej, i, ignored) ==
    IF i >= n_modules THEN acc
    ELSE LET error_count == CountMismatches(ej[i].counts, 1, ignored)
         IN  JsonScanFrom(
                 IF ej[i] # NoJson /\ error_count # 0
                 THEN [json_err_msg |-> FALSE,
                       log |-> Append(acc.log, <<"json_error", i, error_count>>)]
                 ELSE acc,
                 ej, i + 1, ignored)

\* UntrackedFrom that reports a bit only when it fired in more than one line
RECURSIVE UntrackedFrom_morethanonce(_, _, _)
UntrackedFrom_morethanonce(m, trigger_liste, index) ==
    IF index >= Len(trigger_liste) THEN <<>>
    ELSE (IF byIndex(m, index) = None /\ trigger_liste[index + 1] > 1
          THEN <<<<index, trigger_liste[index + 1]>>>> ELSE <<>>)
         \o UntrackedFrom_morethanonce(m, trigger_liste, index + 1)

\* lines 527-531: the (index, count) pairs of the bits that fire in the test
\* vector and have no algorithm in the menu
RECURSIVE UntrackedFrom(_, _, _)
UntrackedFrom(m, trigger_liste, index) ==
    IF index >= Len(trigger_liste) THEN <<>>
    ELSE (IF byIndex(m, index) = None /\ trigger_liste[index + 1] > 0
          THEN <<<<index, trigger_liste[index + 1]>>>> ELSE <<>>)
         \o UntrackedFrom(m, trigger_liste, index + 1)

\* lines 540-541
UntrackedLog(errs) == [k \in 1 .. Len(errs) |-> <<"untracked", errs[k][1], errs[k][2]>>]

\* lines 546-550 (and 554-558) for one index: one heading and one entry per
\* element of the list, each naming the module of the first element
MultipleLog(kind, liste, index, name) ==
    <<<<kind>>>> \o [i \in 1 .. Len(liste) |-> <<"module", liste[1][1], index, name>>]

\* lines 544-550 (and 552-558); acc is [log, raised].  byIndex(index).name
\* raises AttributeError when the menu has no algorithm with that index.
RECURSIVE MultipleScanFrom(_, _, _, _, _)
MultipleScanFrom(acc, kind, d, m, index) ==
    IF acc.raised \/ index >= Cardinality(DOMAIN d) THEN acc
    ELSE MultipleScanFrom(
             IF ~check_multiple(d[index]) THEN acc
             ELSE IF byIndex(m, index) = None
                  THEN [log |-> Append(acc.log, <<kind>>), raised |-> TRUE]
                  ELSE [log |-> acc.log \o MultipleLog(kind, d[index], index,
                                                       byIndex(m, index).name),
                        raised |-> FALSE],
             kind, d, m, index + 1)

(***************************************************************************)
(* State.                                                                  *)
(***************************************************************************)
VARIABLES
    menu,          \* the algorithms of the XmlMenu
    a_ignored,     \* the --ignored flag
    testvector,    \* the lines of the test vector file
    module_testvector,  \* per module: its masked test vector file, or NoFile
    module_files,       \* per module: the simulation files make_files has written
    results_json,  \* per module: the JSON artifact on disk, or NoFile
    lock_file,     \* per module: whether running.lock exists
    thread,        \* per module: where its run_vsim thread is
    pc,            \* where run_simulation_questa is
    cur,           \* the module of the current loop iteration
    removed,       \* the modules whose running.lock the coordinator deleted
    algos_sim, algos_tv, error_jsonf,
    success, err_cnt, ignored_algos, json_err_msg, errors,
    sum_log,       \* what was written to the summary log so far
    verdict,       \* "Success" or "Failed" once logged (lines 562-565)
    exception,     \* the exception that ended run_simulation_questa, if any
    exit_code      \* the exit status of the process, -1 while undecided

inputs == <<menu, a_ignored, testvector>>
files  == <<results_json, lock_file, module_testvector, module_files>>
aggr   == <<algos_sim, algos_tv, error_jsonf, success, err_cnt, ignored_algos,
            json_err_msg, errors, sum_log, verdict>>
vars   == <<inputs, files, thread, pc, cur, removed, aggr, exception, exit_code>>

NoException == <<"none">>

\* an uncaught exception ends the process with status 1
Raise(exc) ==
    /\ pc' = "raised"
    /\ exception' = exc
    /\ exit_code' = 1

AggrInit ==
    /\ algos_sim = EmptyDict
    /\ algos_tv = EmptyDict
    /\ error_jsonf = [m \in Modules |-> NoJson]
    /\ success = TRUE
    /\ err_cnt = 0
    /\ ignored_algos = <<>>
    /\ json_err_msg = TRUE
    /\ errors = <<>>
    /\ sum_log = <<>>
    /\ verdict = "none"
    /\ exception = NoException
    /\ exit_code = -1

(***************************************************************************)
(* The simulator process and the run_vsim thread of module i.              *)
(***************************************************************************)
\* the artifacts a simulator writes in the runs of the coordinator model:
\* the module's algorithm fired once, as in the reference, or not at all
RunOutputs(i) ==
    {[errors |-> <<>>,
      counts |-> <<[algo_index |-> i, algo_sim |-> 1, algo_tv |-> 1]>>],
     [errors |-> <<[algos_sim |-> {}, algos_tv |-> {i}]>>,
      counts |-> <<[algo_index |-> i, algo_sim |-> 0, algo_tv |-> 1]>>]}

\* the simulator has consumed the control script and creates running.lock
SimCreateLock(i) ==
    /\ thread[i] = "vsim"
    /\ thread' = [thread EXCEPT ![i] = "vsim_locked"]
    /\ lock_file' = [lock_file EXCEPT ![i] = TRUE]
    /\ UNCHANGED <<inputs, results_json, module_testvector, module_files, pc, cur,
                   removed, aggr, exception, exit_code>>

\* the JSON artifact of module i becomes visible on the filesystem
SimWriteJson(i) ==
    /\ thread[i] # "notstarted"
    /\ results_json[i] = NoFile
    /\ \E j \in RunOutputs(i) : results_json' = [results_json EXCEPT ![i] = File(j)]
    /\ UNCHANGED <<inputs, lock_file, module_testvector, module_files, thread, pc, cur,
                   removed, aggr, exception, exit_code>>

\* subprocess.run returns (line 137): check_returncode raises
\* CalledProcessError in the thread when the status is not 0
SimExit(i) ==
    /\ thread[i] \in {"vsim", "vsim_locked"}
    /\ \E returncode \in {0, 1} :
          thread' = [thread EXCEPT ![i] =
                        IF returncode = 0 THEN "waitjson" ELSE "CalledProcessError"]
    /\ UNCHANGED <<inputs, files, pc, cur, removed, aggr, exception, exit_code>>

\* the simulator process never exits: subprocess.run has no timeout
SimHang(i) ==
    /\ thread[i] \in {"vsim", "vsim_locked"}
    /\ thread' = [thread EXCEPT ![i] = "hung"]
    /\ UNCHANGED <<inputs, files, pc, cur, removed, aggr, exception, exit_code>>

\* lines 141-178: the artifact exists, results.txt is written
JsonFound(i) ==
    /\ thread[i] = "waitjson"
    /\ results_json[i] # NoFile
    /\ thread' = [thread EXCEPT ![i] = "finished"]
    /\ UNCHANGED <<inputs, files, pc, cur, removed, aggr, exception, exit_code>>

\* JsonTimeout of a wait without timeout: the poll goes on
JsonTimeout_never(i) ==
    /\ thread[i] = "waitjson"
    /\ results_json[i] = NoFile
    /\ UNCHANGED vars

\* lines 142-145: the artifact is still missing when TIMEOUT_SEC has passed;
\* the RuntimeError ends the thread only
JsonTimeout(i) ==
    /\ thread[i] = "waitjson"
    /\ results_json[i] = NoFile
    /\ thread' = [thread EXCEPT ![i] = "Timeout"]
    /\ UNCHANGED <<inputs, files, pc, cur, removed, aggr, exception, exit_code>>

\* the states in which a thread is over, so that join returns
Ended == {"finished", "CalledProcessError", "Timeout"}

(***************************************************************************)
(* run_simulation_questa: the files of each module (lines 394-410).        *)
(***************************************************************************)
\* Module.make_files (lines 226-290): the files it renders into the
\* directory of the module, in the order of the calls of render_template
ModuleFiles ==
    <<"DO_FILE_TMP", "TB_FILE", "algo_mapping_rop.vhd", "fdl_pkg.vhd",
      "gtl_module.vhd", "DO_FILE">>

make_files(present) == present \cup {ModuleFiles[k] : k \in 1 .. Len(ModuleFiles)}

\* PrepareModule that goes on to the next module when write_testvector raised
PrepareModule_goeson ==
    /\ pc = "prepare"
    /\ LET written == write_testvector(get_mask(menu, cur), testvector)
       IN  module_testvector' = [module_testvector EXCEPT ![cur] = File(written.opf)]
    /\ module_files' = [module_files EXCEPT ![cur] = make_files(module_files[cur])]
    /\ IF cur + 1 < n_modules
       THEN pc' = "prepare" /\ cur' = cur + 1
       ELSE pc' = "launch" /\ cur' = 0
    /\ UNCHANGED <<inputs, results_json, lock_file, thread, removed, aggr,
                   exception, exit_code>>

\* PrepareModule without the call of make_files
PrepareModule_nofiles ==
    /\ pc = "prepare"
    /\ LET written == write_testvector(get_mask(menu, cur), testvector)
       IN  /\ module_testvector' = [module_testvector EXCEPT ![cur] = File(written.opf)]
           /\ IF written.error # "none"
              THEN Raise(<<written.error, "write_testvector", cur>>) /\ UNCHANGED cur
              ELSE /\ IF cur + 1 < n_modules
                      THEN pc' = "prepare" /\ cur' = cur + 1
                      ELSE pc' = "launch" /\ cur' = 0
                   /\ UNCHANGED <<exception, exit_code>>
    /\ UNCHANGED <<inputs, results_json, lock_file, module_files, thread, removed, aggr>>

\* one iteration of the loop: the masked test vector of module cur is
\* written; an exception of write_testvector ends the run and leaves the
\* destination file with the lines written so far
PrepareModule ==
    /\ pc = "prepare"
    /\ LET written == write_testvector(get_mask(menu, cur), testvector)
       IN  /\ module_testvector' = [module_testvector EXCEPT ![cur] = File(written.opf)]
           /\ IF written.error # "none"
              THEN /\ Raise(<<written.error, "write_testvector", cur>>)
                   /\ UNCHANGED <<cur, module_files>>
              ELSE /\ module_files' =
                          [module_files EXCEPT ![cur] = make_files(module_files[cur])]
                   /\ IF cur + 1 < n_modules
                      THEN pc' = "prepare" /\ cur' = cur + 1
                      ELSE pc' = "launch" /\ cur' = 0
                   /\ UNCHANGED <<exception, exit_code>>
    /\ UNCHANGED <<inputs, results_json, lock_file, thread, removed, aggr>>

(***************************************************************************)
(* run_simulation_questa: launch and join (lines 418-434).                 *)
(***************************************************************************)
\* StartThread that goes on to the next module without the wait for the marker
StartThread_nowait ==
    /\ pc = "launch"
    /\ thread' = [thread EXCEPT ![cur] = "vsim"]
    /\ IF cur + 1 < n_modules
       THEN pc' = "launch" /\ cur' = cur + 1
       ELSE pc' = "join" /\ cur' = 0
    /\ UNCHANGED <<inputs, files, removed, aggr, exception, exit_code>>

\* lines 420-424
StartThread ==
    /\ pc = "launch"
    /\ thread' = [thread EXCEPT ![cur] = "vsim"]
    /\ pc' = "waitlock"
    /\ UNCHANGED <<inputs, files, cur, removed, aggr, exception, exit_code>>

\* line 425: the poll sees the marker
LockFound ==
    /\ pc = "waitlock"
    /\ lock_file[cur]
    /\ pc' = "removelock"
    /\ UNCHANGED <<inputs, files, thread, cur, removed, aggr, exception, exit_code>>

\* LaunchTimeout that gives up the wait and goes on with the next module
LaunchTimeout_continue ==
    /\ pc = "waitlock"
    /\ ~lock_file[cur]
    /\ IF cur + 1 < n_modules
       THEN pc' = "launch" /\ cur' = cur + 1
       ELSE pc' = "join" /\ cur' = 0
    /\ UNCHANGED <<inputs, files, thread, removed, aggr, exception, exit_code>>

\* LaunchTimeout that also ends the threads that were started
LaunchTimeout_cancel ==
    /\ pc = "waitlock"
    /\ ~lock_file[cur]
    /\ Raise(<<"Timeout", "running.lock", cur>>)
    /\ thread' = [i \in Modules |->
                     IF thread[i] = "notstarted" THEN "notstarted" ELSE "Timeout"]
    /\ UNCHANGED <<inputs, files, cur, removed, aggr>>

\* lines 426-428: the marker is still missing when TIMEOUT_SEC has passed
LaunchTimeout ==
    /\ pc = "waitlock"
    /\ ~lock_file[cur]
    /\ Raise(<<"Timeout", "running.lock", cur>>)
    /\ UNCHANGED <<inputs, files, thread, cur, removed, aggr>>

\* line 430, then the next iteration or the end of the loop
RemoveLock ==
    /\ pc = "removelock"
    /\ lock_file' = [lock_file EXCEPT ![cur] = FALSE]
    /\ removed' = removed \cup {cur}
    /\ IF cur + 1 < n_modules
       THEN pc' = "launch" /\ cur' = cur + 1
       ELSE pc' = "join" /\ cur' = 0
    /\ UNCHANGED <<inputs, results_json, module_testvector, module_files, thread, aggr,
                   exception, exit_code>>

\* Join that does not wait for the thread to be over
Join_nowait ==
    /\ pc = "join"
    /\ IF cur + 1 < n_modules
       THEN pc' = "join" /\ cur' = cur + 1
       ELSE pc' = "read" /\ cur' = 0
    /\ UNCHANGED <<inputs, files, thread, removed, aggr, exception, exit_code>>

\* lines 432-433: thread.join() returns once the thread is over, also when
\* an exception ended it
Join ==
    /\ pc = "join"
    /\ thread[cur] \in Ended
    /\ IF cur + 1 < n_modules
       THEN pc' = "join" /\ cur' = cur + 1
       ELSE pc' = "read" /\ cur' = 0
    /\ UNCHANGED <<inputs, files, thread, removed, aggr, exception, exit_code>>

(***************************************************************************)
(* run_simulation_questa: aggregation and verdict (lines 437-580).         *)
(***************************************************************************)
\* lines 437-457: open() raises FileNotFoundError for a missing artifact
ReadResults ==
    /\ pc = "read"
    /\ IF \E m \in Modules : results_json[m] = NoFile
       THEN /\ Raise(<<"FileNotFoundError", "results_json",
                       CHOOSE m \in Modules :
                           /\ results_json[m] = NoFile
                           /\ \A k \in Modules : results_json[k] = NoFile => m <= k>>)
            /\ UNCHANGED aggr
       ELSE /\ algos_sim' = Boxed(CollectCounts(EmptyDict, results_json, 0, "algo_sim"))
            /\ algos_tv' = Boxed(CollectCounts(EmptyDict, results_json, 0, "algo_tv"))
            /\ error_jsonf' = [m \in Modules |-> ErrorJson(results_json[m][1])]
            /\ pc' = "convert"
            /\ UNCHANGED <<success, err_cnt, ignored_algos, json_err_msg, errors,
                           sum_log, verdict, exception, exit_code>>
    /\ UNCHANGED <<inputs, files, thread, cur, removed>>

\* lines 459-463: algos_sim[index] raises KeyError when an index below
\* len(algos_sim) was reported by no module
ConvertCounts ==
    /\ pc = "convert"
    /\ IF ~RangeLenInKeys(algos_sim) \/ ~RangeLenInKeys(algos_tv)
       THEN /\ Raise(<<"KeyError", "convert">>)
            /\ UNCHANGED aggr
       ELSE /\ algos_sim' = ConvertDict(Unboxed(algos_sim))
            /\ algos_tv' = ConvertDict(Unboxed(algos_tv))
            /\ pc' = "verdict"
            /\ UNCHANGED <<error_jsonf, success, err_cnt, ignored_algos,
                           json_err_msg, errors, sum_log, verdict, exception,
                           exit_code>>
    /\ UNCHANGED <<inputs, files, thread, cur, removed>>

\* lines 479-509: the table of the algorithms of the menu
VerdictTable ==
    /\ pc = "verdict"
    /\ LET r == VerdictLoop(menu, a_ignored, algos_tv, algos_sim, sum_log)
       IN  /\ success' = r.success
           /\ err_cnt' = r.err_cnt
           /\ ignored_algos' = r.ignored_algos
           /\ sum_log' = r.log
           /\ IF r.raised
              THEN Raise(<<"KeyError", "verdict">>)
              ELSE pc' = "jsonscan" /\ UNCHANGED <<exception, exit_code>>
    /\ UNCHANGED <<inputs, files, thread, cur, removed, algos_sim, algos_tv, error_jsonf,
                   json_err_msg, errors, verdict>>

\* lines 511-523
JsonScan ==
    /\ pc = "jsonscan"
    /\ LET r == JsonScanFrom([json_err_msg |-> TRUE, log |-> sum_log],
                             error_jsonf, 0, ignored_algos)
       IN  /\ json_err_msg' = r.json_err_msg
           /\ sum_log' = r.log
    /\ pc' = "untracked"
    /\ UNCHANGED <<inputs, files, thread, cur, removed, algos_sim, algos_tv, error_jsonf,
                   success, err_cnt, ignored_algos, errors, verdict, exception,
                   exit_code>>

\* lines 524-542
UntrackedScan ==
    /\ pc = "untracked"
    /\ LET errs == UntrackedFrom(menu, trigger_list(testvector), 0)
       IN  /\ errors' = errs
           /\ success' = IF Len(errs) > 0 THEN FALSE ELSE success
           /\ sum_log' = sum_log \o UntrackedLog(errs)
    /\ pc' = "multiple"
    /\ UNCHANGED <<inputs, files, thread, cur, removed, algos_sim, algos_tv, error_jsonf,
                   err_cnt, ignored_algos, json_err_msg, verdict, exception,
                   exit_code>>

\* lines 544-558
MultipleScan ==
    /\ pc = "multiple"
    /\ LET rs == MultipleScanFrom([log |-> sum_log, raised |-> FALSE],
                                  "multiple_sim", algos_sim, menu, 0)
           rt == MultipleScanFrom(rs, "multiple_tv", algos_tv, menu, 0)
       IN  /\ sum_log' = rt.log
           /\ IF rt.raised
              THEN Raise(<<"AttributeError", "multiple">>)
              ELSE pc' = "finish" /\ UNCHANGED <<exception, exit_code>>
    /\ UNCHANGED <<inputs, files, thread, cur, removed, algos_sim, algos_tv, error_jsonf,
                   success, err_cnt, ignored_algos, json_err_msg, errors, verdict>>

\* lines 562-580: the logged verdict and the exit status
Finish ==
    /\ pc = "finish"
    /\ verdict' = IF ~json_err_msg \/ ~success THEN "Failed" ELSE "Success"
    /\ exit_code' = IF ~success THEN 1 ELSE 0
    /\ pc' = "done"
    /\ UNCHANGED <<inputs, files, thread, cur, removed, algos_sim, algos_tv, error_jsonf,
                   success, err_cnt, ignored_algos, json_err_msg, errors, sum_log,
                   exception>>

Aggregate ==
    \/ ReadResults
    \/ ConvertCounts
    \/ VerdictTable
    \/ JsonScan
    \/ UntrackedScan
    \/ MultipleScan
    \/ Finish

(***************************************************************************)
(* Specifications.                                                         *)
(***************************************************************************)
\* the menu of the coordinator runs: algorithm i belongs to module i
RunMenu ==
    {[index |-> i, name |-> "L1_SingleMuCosmics", module_id |-> i] :
         i \in Bits \cap Modules}

\* the test vector of the coordinator runs: one line per algorithm of the
\* menu, in which that algorithm alone fires
RunTestVector == [l \in 1 .. Cardinality(RunMenu) |-> TvLine(Pow2(l - 1))]

\* that file, and the files in which a malformed line follows its first line:
\* an empty line, a hex field that is no hex number
RunTestVectors ==
    {RunTestVector}
    \cup {<<RunTestVector[1], bad>> : bad \in {<<>>, <<<<"g">>, <<"1">>>>}}

\* the whole run, from the preparation of the first module
Init ==
    /\ menu = RunMenu
    /\ a_ignored = FALSE
    /\ testvector \in RunTestVectors
    /\ module_testvector = [m \in Modules |-> NoFile]
    /\ module_files = [m \in Modules |-> {}]
    /\ results_json = [m \in Modules |-> NoFile]
    /\ lock_file = [m \in Modules |-> FALSE]
    /\ thread = [m \in Modules |-> "notstarted"]
    /\ pc = "prepare"
    /\ cur = 0
    /\ removed = {}
    /\ AggrInit

Coordinator ==
    \/ PrepareModule
    \/ StartThread
    \/ LockFound
    \/ LaunchTimeout
    \/ RemoveLock
    \/ Join
    \/ Aggregate

Job(i) ==
    \/ SimCreateLock(i)
    \/ SimWriteJson(i)
    \/ SimExit(i)
    \/ SimHang(i)
    \/ JsonFound(i)
    \/ JsonTimeout(i)

Next ==
    \/ Coordinator
    \/ \E i \in Modules : Job(i)

Spec == Init /\ [][Next]_vars

\* the aggregation alone, from the state in which every thread has joined
\* and every artifact is on disk
AggMenus == {m \in Menus : \A a \in m : a.module_id = a.index % n_modules}

\* the artifacts of the aggregation runs: any list of counts; an errors list
\* that is empty or holds one bx in which the simulation fired one bit more
AggJsons == {j \in JsonRecord : \A e \in 1 .. Len(j.errors) : j.errors[e].algos_tv = {}}

InitAgg ==
    /\ menu \in AggMenus
    /\ a_ignored \in BOOLEAN
    /\ testvector \in TestVectors
    /\ module_testvector =
           [m \in Modules |-> File(write_testvector(get_mask(menu, m), testvector).opf)]
    /\ module_files = [m \in Modules |-> make_files({})]
    /\ results_json \in [Modules -> {File(j) : j \in AggJsons}]
    /\ lock_file = [m \in Modules |-> FALSE]
    /\ thread = [m \in Modules |-> "finished"]
    /\ pc = "read"
    /\ cur = 0
    /\ removed = Modules
    /\ AggrInit

SpecAgg == InitAgg /\ [][Aggregate]_vars

\* the partitioner alone: any menu and any source file, the preparation loop
\* of run_simulation_questa up to the launch
PartMenus == {m \in Menus : \A a \in m : a.name = "L1_SingleMuCosmics"}

InitPart ==
    /\ menu \in PartMenus
    /\ a_ignored = FALSE
    /\ testvector \in SourceFiles
    /\ module_testvector = [m \in Modules |-> NoFile]
    /\ module_files = [m \in Modules |-> {}]
    /\ results_json = [m \in Modules |-> NoFile]
    /\ lock_file = [m \in Modules |-> FALSE]
    /\ thread = [m \in Modules |-> "notstarted"]
    /\ pc = "prepare"
    /\ cur = 0
    /\ removed = {}
    /\ AggrInit

SpecPart == InitPart /\ [][PrepareModule]_vars

\* the aggregation over any test vector the partitioner accepted: the menu
\* holds the algorithms of the first indices, every module reports the
\* counts of its algorithm, equal on both sides
HistMenus ==
    {m \in AggMenus \cap PartMenus : \A a \in m : \A i \in 0 .. a.index : byIndex(m, i) # None}

HistFiles == {f \in SourceFiles : \A l \in 1 .. Len(f) : LineError(f[l]) = "none"}

HistJson(m, id) ==
    [errors |-> <<>>,
     counts |-> IF byModuleId(m, id) = {} THEN <<>>
                ELSE <<[algo_index |-> (CHOOSE a \in byModuleId(m, id) : TRUE).index,
                        algo_sim |-> 1, algo_tv |-> 1]>>]

InitHist ==
    /\ menu \in HistMenus
    /\ a_ignored = FALSE
    /\ testvector \in HistFiles
    /\ module_testvector =
           [m \in Modules |-> File(write_testvector(get_mask(menu, m), testvector).opf)]
    /\ module_files = [m \in Modules |-> make_files({})]
    /\ results_json = [m \in Modules |-> File(HistJson(menu, m))]
    /\ lock_file = [m \in Modules |-> FALSE]
    /\ thread = [m \in Modules |-> "finished"]
    /\ pc = "read"
    /\ cur = 0
    /\ removed = Modules
    /\ AggrInit

SpecHist == InitHist /\ [][Aggregate]_vars

\* the whole run under the scheduling of the operating system: the
\* coordinator and every run_vsim thread go on polling, and a simulator
\* process either exits at some time or never does (SimHang)
Fairness ==
    /\ WF_vars(Coordinator)
    /\ \A i \in Modules : WF_vars(JsonFound(i) \/ JsonTimeout(i))
    /\ \A i \in Modules : WF_vars(SimExit(i) \/ SimHang(i))

FairSpec == Init /\ [][Next]_vars /\ Fairness

(***************************************************************************)
(* Vocabulary of the properties.                                           *)
(***************************************************************************)
\* the CountEntry records of all modules, in the order they are read
RECURSIVE ReportedFrom(_)
ReportedFrom(m) ==
    IF m >= n_modules THEN <<>>
    ELSE results_json[m][1].counts \o ReportedFrom(m + 1)

ReportsOf(index) ==
    LET Test(e) == e.algo_index = index
    IN  SelectSeq(ReportedFrom(0), Test)

\* the first non-zero count reported for index on one side, 0 if none
FirstNonZero(index, field) ==
    LET reps == ReportsOf(index)
        nz == {k \in 1 .. Len(reps) : reps[k][field] # 0}
    IN  IF nz = {} THEN 0
        ELSE reps[CHOOSE k \in nz : \A j \in nz : k <= j][field]

\* the algorithm is classified as ignored
IsIgnoredAlgo(a) == a_ignored /\ a.name \in IGNORED_ALGOS

\* the table of the algorithms has been written completely
TableDone ==
    \/ pc \in {"jsonscan", "untracked", "multiple", "finish", "done"}
    \/ pc = "raised" /\ exception[1] = "AttributeError"

\* the rows of the table
Rows == {sum_log[k] : k \in {j \in 1 .. Len(sum_log) : sum_log[j][1] = "row"}}

HasRow(a, tv, sim, result) ==
    <<"row", a.module_id, a.index, a.name, tv, sim, result>> \in Rows

\* the process is over
Terminated == pc \in {"done", "raised"}

(***************************************************************************)
(* C1: the verdict is pass only without count mismatch, JSON-level         *)
(* mismatch and untracked trigger, and the exit status is 0 exactly when   *)
(* the verdict is pass and 1 when it is fail; a run flagged by the JSON    *)
(* mismatch scan never exits with status 0.                                *)
(***************************************************************************)
C1_ExitStatusFollowsVerdict ==
    pc = "done" =>
        /\ verdict = "Success" => (err_cnt = 0 /\ json_err_msg /\ errors = <<>>)
        /\ exit_code = 0 <=> verdict = "Success"
        /\ exit_code = 1 <=> verdict = "Failed"
        /\ ~json_err_msg => exit_code # 0

(***************************************************************************)
(* C2: every algorithm of the menu that is not ignored is classified OK    *)
(* when the reference count and the simulated count compared for it are    *)
(* equal and ERROR otherwise; the error counter is the number of           *)
(* algorithms classified ERROR; the verdict fails when it is at least 1.   *)
(***************************************************************************)
C2_Classification ==
    TableDone =>
        /\ \A a \in menu :
              ~IsIgnoredAlgo(a) =>
                  LET tv  == FirstNonZero(a.index, "algo_tv")
                      sim == FirstNonZero(a.index, "algo_sim")
                  IN  HasRow(a, tv, sim, IF tv = sim THEN "OK" ELSE "ERROR")
        /\ err_cnt = Cardinality({r \in Rows : r[7] = "ERROR"})
        /\ err_cnt >= 1 => ~success
        /\ (pc = "done" /\ err_cnt >= 1) => (verdict = "Failed" /\ exit_code = 1)

\* one algorithm is classified OK and another one ERROR
C2_Witness ==
    /\ pc = "done"
    /\ \E r \in Rows : r[7] = "ERROR"
    /\ \E r \in Rows : r[7] = "OK"

(***************************************************************************)
(* C3: when several modules report the same index, the comparison uses the *)
(* counts of the first module that reported it, whatever their values.     *)
(***************************************************************************)
C3_FirstReportedTuple ==
    TableDone =>
        \A a \in menu :
            Len(ReportsOf(a.index)) > 1 =>
                \E r \in Rows :
                    /\ r[3] = a.index
                    /\ r[5] = ReportsOf(a.index)[1].algo_tv
                    /\ r[6] = ReportsOf(a.index)[1].algo_sim

(***************************************************************************)
(* C3 as amended: on each side the comparison uses the first non-zero      *)
(* count reported for the index, in the order of the reports, and 0 when   *)
(* every count reported on that side is zero.                              *)
(***************************************************************************)
C3_FirstNonZeroTuple ==
    TableDone =>
        \A a \in menu :
            Len(ReportsOf(a.index)) > 1 =>
                \E r \in Rows :
                    /\ r[3] = a.index
                    /\ r[5] = FirstNonZero(a.index, "algo_tv")
                    /\ r[6] = FirstNonZero(a.index, "algo_sim")
                    /\ r[7] = IF IsIgnoredAlgo(a) THEN "IGNORE"
                              ELSE IF r[5] = r[6] THEN "OK" ELSE "ERROR"

\* two modules report the index of a menu algorithm, the first one a
\* simulated count of zero and the second one a non-zero count
C3_Witness ==
    /\ pc = "done"
    /\ \E a \in menu :
          /\ Len(ReportsOf(a.index)) > 1
          /\ ReportsOf(a.index)[1].algo_sim = 0
          /\ ReportsOf(a.index)[2].algo_sim # 0
          /\ \E r \in Rows : r[3] = a.index /\ r[6] # 0

(***************************************************************************)
(* C4: a per-bx entry of a module's errors list in which the simulated and *)
(* the reference bits differ on an index that is not ignored makes the run *)
(* fail, also when all the counts of the counts lists are equal.           *)
(***************************************************************************)
\* the bits on which the two sides of a per-bx record differ
DiffBits(e) == (e.algos_sim \ e.algos_tv) \cup (e.algos_tv \ e.algos_sim)

PerBxMismatch ==
    \E m \in Modules :
        \E k \in 1 .. Len(results_json[m][1].errors) :
            \E b \in DiffBits(results_json[m][1].errors[k]) :
                ~InList(b, ignored_algos)

C4_PerBxMismatchFails ==
    (pc = "done" /\ PerBxMismatch) => (verdict = "Failed" /\ exit_code = 1)

(***************************************************************************)
(* C5: every bit with a non-zero count in the histogram of the test vector *)
(* and no algorithm in the menu is reported with its count as an untracked *)
(* trigger, and when there is one the verdict fails whatever the other     *)
(* results are.                                                            *)
(***************************************************************************)
\* bit k of the value v
BitOf(v, k) == (v \div Pow2(k)) % 2

\* the number of lines of the test vector whose bit k is set
FiringLines(k) ==
    Cardinality({l \in 1 .. Len(testvector) : BitOf(int16(HexField(testvector[l])), k) = 1})

UntrackedBits == {k \in Bits : FiringLines(k) > 0 /\ \A a \in menu : a.index # k}

\* the untracked-trigger scan has run
UntrackedDone ==
    \/ pc \in {"multiple", "finish", "done"}
    \/ pc = "raised" /\ exception[1] = "AttributeError"

C5_UntrackedTriggers ==
    /\ UntrackedDone =>
          /\ \A k \in UntrackedBits :
                /\ InList(<<k, FiringLines(k)>>, errors)
                /\ InList(<<"untracked", k, FiringLines(k)>>, sum_log)
          /\ \A e \in 1 .. Len(errors) : errors[e][1] \in UntrackedBits
          /\ UntrackedBits # {} => ~success
    /\ (pc = "done" /\ UntrackedBits # {}) => (verdict = "Failed" /\ exit_code = 1)
    /\ (Terminated /\ UntrackedBits # {}) => exit_code = 1

\* an untracked trigger is the only anomaly of a run: the counts agree
C5_Witness ==
    /\ pc = "done"
    /\ UntrackedBits # {}
    /\ err_cnt = 0
    /\ json_err_msg
    /\ \E r \in Rows : r[7] = "OK"

(***************************************************************************)
(* C6: an algorithm of the menu whose index no module reported gets the    *)
(* comparison tuple (-1, 0) on both sides, so that its lookup in the       *)
(* verdict loop is defined and the aggregation does not fail.              *)
(***************************************************************************)
Unreported == {a \in menu : Len(ReportsOf(a.index)) = 0}

C6_UnreportedIndexIsSentinel ==
    (pc \notin {"read", "convert", "verdict"} /\ Unreported # {}) =>
        /\ ~(pc = "raised" /\ exception[1] = "KeyError")
        /\ \A a \in Unreported :
              /\ HasKey(algos_tv, a.index) /\ algos_tv[a.index] = <<<<-1, 0>>>>
              /\ HasKey(algos_sim, a.index) /\ algos_sim[a.index] = <<<<-1, 0>>>>

(***************************************************************************)
(* C7: the job of module i + 1 is started only after the coordinator has   *)
(* seen and deleted the marker of module i; at every moment at most one    *)
(* started job has a marker that the coordinator has not seen and deleted. *)
(***************************************************************************)
Started(i) == thread[i] # "notstarted"

C7_LaunchIsSerialized ==
    /\ \A i \in Modules : Started(i) => \A j \in 0 .. (i - 1) : j \in removed
    /\ Cardinality({i \in Modules : Started(i) /\ i \notin removed}) <= 1
    /\ \A i \in removed : Started(i) /\ ~lock_file[i]

\* the second job runs, its marker is there and not yet seen, and the first
\* job is still running
C7_Witness ==
    /\ Started(1)
    /\ lock_file[1]
    /\ 1 \notin removed
    /\ thread[0] = "vsim_locked"

(***************************************************************************)
(* C8: when the marker of a started job does not appear within the timeout *)
(* the run aborts with a timeout error that names the marker of that       *)
(* module, no job of a later module is ever started and no aggregation or  *)
(* verdict is produced.                                                    *)
(***************************************************************************)
LaunchAborted == pc = "raised" /\ exception[1] = "Timeout"

C8_AbortedState ==
    LaunchAborted =>
        /\ exception = <<"Timeout", "running.lock", cur>>
        /\ Started(cur)
        /\ cur \notin removed
        /\ \A j \in Modules : j > cur => ~Started(j)
        /\ verdict = "none"
        /\ sum_log = <<>>
        /\ algos_sim = EmptyDict /\ algos_tv = EmptyDict
        /\ exit_code = 1

\* the wait for the marker ends without the marker only by the abort, and
\* nothing is launched or aggregated after the abort
C8_WaitStep ==
    /\ (pc = "waitlock" /\ ~lock_file[cur] /\ pc' # "waitlock") => LaunchAborted'
    /\ LaunchAborted =>
          /\ LaunchAborted'
          /\ \A j \in Modules : ~Started(j) => ~Started(j)'
          /\ UNCHANGED <<aggr, exception, exit_code, cur>>

C8_LaunchTimeoutAborts == []C8_AbortedState /\ [][C8_WaitStep]_vars

\* the first job got its marker, the second one timed out
C8_Witness ==
    /\ LaunchAborted
    /\ cur = 1
    /\ 0 \in removed

(***************************************************************************)
(* C9: a simulator process that exits with a non-zero status makes the run *)
(* end in failure: the run never reports a passing verdict, also when the  *)
(* JSON artifact of that job exists.                                       *)
(***************************************************************************)
C9_ProcessFailurePropagates ==
    (\E i \in Modules : thread[i] = "CalledProcessError") =>
        ~(pc = "done" /\ (verdict = "Success" \/ exit_code = 0))

C11_ResultTimeoutAborts ==
    (\E i \in Modules : thread[i] = "Timeout") =>
        /\ pc \notin {"convert", "verdict", "jsonscan", "untracked", "multiple",
                      "finish", "done"}
        /\ verdict = "none"

(***************************************************************************)
(* Vocabulary of the partitioner claims.                                   *)
(***************************************************************************)
Written(m) == module_testvector[m] # NoFile

Dest(m) == module_testvector[m][1]

\* positions of the bits a source hex field can hold (two digits of four
\* bits), and the next one
SourceBits == 0 .. 8

\* the firing value of line l of the source file
SourceValue(l) == int16(HexField(testvector[l]))

\* the firing value written in line l of the file of module m
DestValue(m, l) == int16(HexField(Dest(m)[l]))

LowerCase(token) ==
    \A c \in 1 .. Len(token) : \E d \in 1 .. Len(HexDigits) : token[c] = HexDigits[d]

\* the partition of the source file for module m raises no exception
WellFormed == \A l \in 1 .. Len(testvector) : LineError(testvector[l]) = "none"

PartitionDone == pc = "launch"

C13_FinOrRecomputed ==
    \A m \in Modules :
        Written(m) =>
            \A l \in 1 .. Len(Dest(m)) :
                LET original == SourceValue(l)
                    mask == get_mask(menu, m)
                IN  /\ FinOrField(Dest(m)[l]) \in {<<"0">>, <<"1">>}
                    /\ FinOrField(Dest(m)[l]) = <<"1">>
                           <=> \E k \in SourceBits :
                                  BitOf(original, k) = 1 /\ BitOf(mask, k) = 1
                    /\ mask = 0 => FinOrField(Dest(m)[l]) = <<"0">>

\* one module turned a flag 0 into 1, a module without algorithms turned a
\* flag 1 into 0
C13_Witness ==
    /\ PartitionDone
    /\ Len(testvector) = MaxFileLines
    /\ \E m \in Modules :
          /\ FinOrField(testvector[1]) = <<"0">>
          /\ FinOrField(Dest(m)[1]) = <<"1">>
    /\ \E m \in Modules :
          /\ get_mask(menu, m) = 0
          /\ FinOrField(testvector[2]) = <<"1">>
          /\ SourceValue(2) # 0
          /\ FinOrField(Dest(m)[2]) = <<"0">>

(***************************************************************************)
(* C14: the mask of a module has bit k set exactly when the menu holds an  *)
(* algorithm of index k whose module_id is the id of the module.           *)
(***************************************************************************)
C14_MaskIsOwnedBits ==
    \A m \in Modules :
        \A k \in 0 .. max_algorithms :
            BitOf(get_mask(menu, m), k) = 1
                <=> \E a \in menu : a.index = k /\ a.module_id = m

\* the partition was written with the mask of a module that owns two
\* algorithms, next to a module that owns none
C14_Witness ==
    /\ PartitionDone
    /\ \E m \in Modules : Cardinality(byModuleId(menu, m)) = 2
    /\ \E m \in Modules : byModuleId(menu, m) = {} /\ get_mask(menu, m) = 0

(***************************************************************************)
(* C15: with unique indices and one module per algorithm, the masks of two *)
(* distinct modules have no bit in common.                                 *)
(***************************************************************************)
C15_MasksAreDisjoint ==
    \A i, j \in Modules :
        i # j => BitAnd(get_mask(menu, i), get_mask(menu, j)) = 0

\* the partition was written for two modules that both own an algorithm
C15_Witness ==
    /\ PartitionDone
    /\ \A m \in Modules : m < 2 => get_mask(menu, m) # 0

(***************************************************************************)
(* C16: partitioning is idempotent: for a well-formed source file and the  *)
(* mask of a module, the partition of the module's masked file with the    *)
(* same mask is that masked file again.                                    *)
(***************************************************************************)
C16_PartitionIsIdempotent ==
    \A m \in Modules :
        (Written(m) /\ WellFormed) =>
            LET again == write_testvector(get_mask(menu, m), Dest(m))
            IN  /\ again.error = "none"
                /\ again.opf = Dest(m)

\* a masked file of full length that differs from its source
C16_Witness ==
    /\ PartitionDone
    /\ WellFormed
    /\ Len(testvector) = MaxFileLines
    /\ \E m \in Modules :
          /\ get_mask(menu, m) # 0
          /\ \A l \in 1 .. Len(testvector) : Dest(m)[l] # testvector[l]

(***************************************************************************)
(* C17: a partition with the full-coverage mask (the OR of the bits of all *)
(* algorithms of the menu) holds, in every line, the bits of the source    *)
(* firing value that are owned by some algorithm, and no other bit.        *)
(***************************************************************************)
C17_FullCoverageRoundTrip ==
    LET full == write_testvector(get_mask_from(menu, 0), testvector).opf
    IN  /\ WellFormed => Len(full) = Len(testvector)
        /\ \A l \in 1 .. Len(full) :
               LET written == int16(HexField(full[l]))
                   original == SourceValue(l)
               IN  \A k \in SourceBits :
                       BitOf(written, k) = 1
                           <=> BitOf(original, k) = 1 /\ \E a \in menu : a.index = k
        /\ \A m \in Modules :
               (Written(m) /\ pc # "raised" /\ byModuleId(menu, m) = menu) =>
                   Dest(m) = full

\* a module that owns every algorithm of the menu got the full-coverage
\* partition of a line with an owned bit and a bit no algorithm owns
C17_Witness ==
    /\ PartitionDone
    /\ Len(testvector) >= 1
    /\ \E m \in Modules :
          /\ menu # {}
          /\ byModuleId(menu, m) = menu
          /\ \E k \in SourceBits :
                 BitOf(SourceValue(1), k) = 1 /\ \A a \in menu : a.index # k
          /\ DestValue(m, 1) # 0

\* write_testvector raised on a malformed line
PartitionFailed == pc = "raised" /\ exception[1] \in {"IndexError", "ValueError"}

(***************************************************************************)
(* C18: a source line with fewer than two tokens, or whose second-to-last  *)
(* token is no hex number, makes the partition fail, and the failed        *)
(* partition leaves no destination file that holds only the lines before   *)
(* the bad one.                                                            *)
(***************************************************************************)
C18_NoPartialDestination ==
    /\ ~WellFormed => pc # "launch"
    /\ PartitionFailed =>
          \A m \in Modules : Written(m) => Len(Dest(m)) = Len(testvector)

(***************************************************************************)
(* C19: when the partition of the test vector fails on a malformed line,   *)
(* the run ends there: no simulation job of any module is ever started.    *)
(***************************************************************************)
C19_NoLaunchAfterPartitionError ==
    ~WellFormed =>
        /\ pc \in {"prepare", "raised"}
        /\ pc = "raised" => PartitionFailed
        /\ \A i \in Modules : thread[i] = "notstarted"

\* the partition of the first module failed on the hex field of a line
C19_Witness ==
    /\ PartitionFailed
    /\ exception[1] = "ValueError"
    /\ cur = 0
    /\ Written(0)
    /\ \A i \in Modules : thread[i] = "notstarted" /\ results_json[i] = NoFile

(***************************************************************************)
(* C20: the trigger histogram of a test vector file has one count per bit  *)
(* (512 in the code); the count of bit k is the number of lines whose hex  *)
(* field has bit k set, bit 0 being the least significant bit.             *)
(***************************************************************************)
C20_TriggerHistogram ==
    WellFormed =>
        /\ Len(trigger_list(testvector)) = max_algorithms
        /\ \A k \in Bits : trigger_list(testvector)[k + 1] = FiringLines(k)

\* the scan used the histogram of two lines that both have bit 0 but not
\* both bit 1, one of them with a bit beyond the last count
C20_Witness ==
    /\ UntrackedDone
    /\ Len(testvector) = 2
    /\ FiringLines(0) = 2
    /\ FiringLines(1) = 1
    /\ FiringLines(max_algorithms) > 0

(***************************************************************************)
(* Vocabulary of the multiplicity and mismatch claims.                     *)
(***************************************************************************)
\* the modules whose artifact holds a CountEntry for the index
Reporters(index) ==
    {m \in Modules :
        \E c \in 1 .. Len(results_json[m][1].counts) :
            results_json[m][1].counts[c].algo_index = index}

MultiplicityAnomaly(index) == Cardinality(Reporters(index)) > 1

\* the lines of the summary log of one kind
LogEntries(kind) ==
    {sum_log[k] : k \in {j \in 1 .. Len(sum_log) : sum_log[j][1] = kind}}

\* the multiplicity scan has run to its end
MultipleDone == pc \in {"finish", "done"}

\* no count mismatch on the compared tuples of the algorithms of the menu
NoCountMismatch ==
    \A a \in menu :
        IsIgnoredAlgo(a)
        \/ FirstNonZero(a.index, "algo_tv") = FirstNonZero(a.index, "algo_sim")

\* no artifact holds a per-bx mismatch record
NoPerBxRecord == \A m \in Modules : Len(results_json[m][1].errors) = 0

(***************************************************************************)
(* C21: when more than one module reports a CountEntry for an index, the   *)
(* summary holds a 'multiple algorithms found' diagnostic for the index    *)
(* in which every module that reported the index is listed.                *)
(***************************************************************************)
C21_MultiplicityListsModules ==
    MultipleDone =>
        \A index \in Bits :
            MultiplicityAnomaly(index) =>
                /\ LogEntries("multiple_sim") \cup LogEntries("multiple_tv") # {}
                /\ \A m \in Reporters(index) :
                       \E e \in LogEntries("module") : e[2] = m /\ e[3] = index

(***************************************************************************)
(* C22: a multiplicity anomaly alone does not flip the verdict: with an    *)
(* index reported by more than one module, but no count mismatch on the    *)
(* compared tuples, no per-bx mismatch and no untracked trigger, the run   *)
(* ends with the verdict pass and the exit status 0.                       *)
(***************************************************************************)
C22_MultiplicityDoesNotFail ==
    (/\ Terminated
     /\ \E index \in Bits : MultiplicityAnomaly(index)
     /\ NoCountMismatch
     /\ NoPerBxRecord
     /\ UntrackedBits = {}) =>
        (pc = "done" /\ verdict = "Success" /\ exit_code = 0)

(***************************************************************************)
(* C23: with ignoring requested, an algorithm whose name is on the ignore  *)
(* list is classified IGNORE: a difference of its counts adds nothing to   *)
(* the error counter, does not make the verdict fail, and the entries of   *)
(* its index are left out of the mismatch count of each module; without    *)
(* ignoring requested it is classified by its counts like any other.       *)
(***************************************************************************)
\* the JSON mismatch scan has run
JsonScanDone ==
    \/ pc \in {"untracked", "multiple", "finish", "done"}
    \/ pc = "raised" /\ exception[1] = "AttributeError"

\* the entries of module m that the scan counts: the artifact has a per-bx
\* record, the counts differ, the index is not one of an ignored algorithm
CountedEntries(m) ==
    {c \in 1 .. Len(results_json[m][1].counts) :
        /\ Len(results_json[m][1].errors) > 0
        /\ results_json[m][1].counts[c].algo_tv # results_json[m][1].counts[c].algo_sim
        /\ ~\E a \in menu :
               /\ a.index = results_json[m][1].counts[c].algo_index
               /\ a_ignored
               /\ a.name \in {"L1_FirstBunchInTrain", "L1_SecondBunchInTrain"}}

C23_IgnoredAlgorithms ==
    /\ TableDone =>
          /\ \A a \in menu :
                LET tv  == FirstNonZero(a.index, "algo_tv")
                    sim == FirstNonZero(a.index, "algo_sim")
                IN  IF a_ignored /\ a.name \in {"L1_FirstBunchInTrain", "L1_SecondBunchInTrain"}
                    THEN HasRow(a, tv, sim, "IGNORE") /\ InList(a.index, ignored_algos)
                    ELSE /\ HasRow(a, tv, sim, IF tv = sim THEN "OK" ELSE "ERROR")
                         /\ ~InList(a.index, ignored_algos)
          /\ err_cnt = Cardinality({r \in Rows : r[7] = "ERROR"})
          /\ pc = "jsonscan" => (success <=> err_cnt = 0)
    /\ JsonScanDone =>
          /\ json_err_msg <=> \A m \in Modules : CountedEntries(m) = {}
          /\ \A m \in Modules :
                CountedEntries(m) # {} <=>
                    <<"json_error", m, Cardinality(CountedEntries(m))>>
                        \in LogEntries("json_error")

\* ignoring was requested and the only differences are those of an ignored
\* algorithm, in the compared counts and in the counts of an artifact with a
\* per-bx record: the run passes
C23_Witness ==
    /\ pc = "done"
    /\ a_ignored
    /\ \E a \in menu :
          /\ a.name = "L1_FirstBunchInTrain"
          /\ FirstNonZero(a.index, "algo_tv") # FirstNonZero(a.index, "algo_sim")
          /\ HasRow(a, FirstNonZero(a.index, "algo_tv"),
                    FirstNonZero(a.index, "algo_sim"), "IGNORE")
          /\ \E m \in Reporters(a.index) : Len(results_json[m][1].errors) > 0
    /\ err_cnt = 0
    /\ verdict = "Success"
    /\ exit_code = 0

(***************************************************************************)
(* C24: a verification mismatch of any category (count mismatch, per-bx    *)
(* mismatch, untracked trigger, multiplicity anomaly, also on an index     *)
(* that no algorithm of the menu owns) never aborts the aggregation: the   *)
(* run completes the summary, with every detected category in it.          *)
(***************************************************************************)
C24_MismatchesNeverAbort ==
    (/\ Terminated
     /\ \/ ~NoCountMismatch
        \/ ~NoPerBxRecord
        \/ UntrackedBits # {}
        \/ \E index \in Bits : MultiplicityAnomaly(index)) =>
        /\ pc = "done"
        /\ ~NoCountMismatch => \E r \in Rows : r[7] = "ERROR"
        /\ ~NoPerBxRecord => LogEntries("json_error") # {}
        /\ \A k \in UntrackedBits : \E e \in LogEntries("untracked") : e[2] = k
        /\ (\E index \in Bits : MultiplicityAnomaly(index)) =>
               LogEntries("multiple_sim") \cup LogEntries("multiple_tv") # {}

(***************************************************************************)
(* C25: the aggregation reads the JSON artifacts only after every launched *)
(* job has joined: when an artifact is read no job is running any more,    *)
(* and an artifact the aggregator has read is not written again.           *)
(***************************************************************************)
\* the coordinator is at the read of the artifacts or beyond it
Aggregating ==
    \/ pc \in {"read", "convert", "verdict", "jsonscan", "untracked", "multiple",
               "finish", "done"}
    \/ pc = "raised" /\ exception[1] \in {"FileNotFoundError", "KeyError",
                                          "AttributeError"}

\* the artifacts have been read
ArtifactsRead ==
    \/ pc \in {"convert", "verdict", "jsonscan", "untracked", "multiple", "finish",
               "done"}
    \/ pc = "raised" /\ exception[1] \in {"KeyError", "AttributeError"}

C25_AllJoined ==
    /\ Aggregating => \A i \in Modules : thread[i] \in Ended
    /\ ArtifactsRead =>
           \A i \in Modules :
               /\ results_json[i] # NoFile
               /\ error_jsonf[i] = ErrorJson(results_json[i][1])

C25_ReadStep ==
    /\ (pc = "read" /\ pc' # "read") =>
           /\ \A i \in Modules : thread[i] \in Ended
           /\ UNCHANGED <<thread, results_json>>
    /\ Aggregating => UNCHANGED thread
    /\ ArtifactsRead => UNCHANGED results_json

C25_ReadAfterJoin == []C25_AllJoined /\ [][C25_ReadStep]_vars

\* the artifacts were read after a job that failed and a job that finished
C25_Witness ==
    /\ pc = "convert"
    /\ thread[0] = "CalledProcessError"
    /\ thread[1] = "finished"

(***************************************************************************)
(* C26: for every module the masked test vector, the simulation control    *)
(* script and the testbench source are completely written before the job   *)
(* of that module is started.                                              *)
(***************************************************************************)
\* the masked test vector of module m has all the lines of the source
TestvectorComplete(m) == Written(m) /\ Len(Dest(m)) = Len(testvector)

\* the control script, the testbench and the patched VHDL files of module m
FilesComplete(m) == \A k \in 1 .. Len(ModuleFiles) : ModuleFiles[k] \in module_files[m]

C26_FilesBeforeStart ==
    \A m \in Modules : Started(m) => TestvectorComplete(m) /\ FilesComplete(m)

C26_StartStep ==
    \A m \in Modules :
        (~Started(m) /\ Started(m)') =>
            /\ TestvectorComplete(m) /\ FilesComplete(m)
            /\ UNCHANGED <<module_testvector, module_files, testvector>>

C26_InputsWrittenBeforeJob == []C26_FilesBeforeStart /\ [][C26_StartStep]_vars

\* the job of the second module runs on a test vector with a line
C26_Witness ==
    /\ thread[1] = "vsim"
    /\ Len(testvector) > 0
    /\ TestvectorComplete(1) /\ FilesComplete(1)

(***************************************************************************)
(* C27: the coordinator never cancels a launched job: after the failure of *)
(* a job and after a launch timeout of a later module every started job    *)
(* goes on to its own completion or failure; only the launch is            *)
(* serialized, so several started jobs can run at the same time.           *)
(***************************************************************************)
\* the job of module i is started and not over
Running(i) == thread[i] \in {"vsim", "vsim_locked", "waitjson"}

\* a running job can take its next step whatever the coordinator and the
\* other jobs have done
C27_JobsGoOn ==
    \A i \in Modules :
        /\ thread[i] \in {"vsim", "vsim_locked"} => ENABLED SimExit(i)
        /\ thread[i] = "waitjson" => ENABLED (JsonFound(i) \/ JsonTimeout(i))

\* the state of a started job changes by a step of that job only: the
\* coordinator and the other jobs stay where they are
C27_JobStep ==
    \A i \in Modules :
        /\ Started(i) => Started(i)'
        /\ (Started(i) /\ thread[i]' # thread[i]) =>
               /\ Running(i) \/ thread[i] = "hung"
               /\ UNCHANGED <<pc, cur, exception, exit_code>>
               /\ \A j \in Modules : j # i => thread[j]' = thread[j]

C27_NoCancellation == []C27_JobsGoOn /\ [][C27_JobStep]_vars

\* the launch of the second module timed out while its job and the job of
\* the first module are running
C27_Witness ==
    /\ LaunchAborted
    /\ cur = 1
    /\ thread[0] = "vsim_locked"
    /\ thread[1] = "vsim"

(***************************************************************************)
(* C28: no trigger bit is lost by the partition.  When every algorithm     *)
(* belongs to a module of the menu and no index has two owners, a trigger  *)
(* bit set in a line of the global test vector is set in that line of the  *)
(* masked test vector of exactly one module, its owner, or it belongs to   *)
(* an index the untracked-trigger scan reports; in every line the OR of    *)
(* the masked values of all modules is the original value AND the union of *)
(* the masks.                                                              *)
(***************************************************************************)
\* every algorithm belongs to a module of the menu, no index has two owners
DisjointOwnership ==
    /\ \A a \in menu : a.module_id \in Modules
    /\ \A a, b \in menu : a.index = b.index => a.module_id = b.module_id

\* the OR of the masked values of line l over the modules from m on
RECURSIVE DestOrFrom(_, _)
DestOrFrom(m, l) ==
    IF m >= n_modules THEN 0 ELSE BitOr(DestValue(m, l), DestOrFrom(m + 1, l))

\* the OR of the masks of the modules from m on
RECURSIVE MaskOrFrom(_)
MaskOrFrom(m) ==
    IF m >= n_modules THEN 0 ELSE BitOr(get_mask(menu, m), MaskOrFrom(m + 1))

C28_NoTriggerBitLost ==
    (DisjointOwnership /\ \A m \in Modules : Written(m)) =>
        \A l \in 1 .. Len(testvector) :
            /\ \A m \in Modules : Len(Dest(m)) = Len(testvector)
            /\ DestOrFrom(0, l) = BitAnd(SourceValue(l), MaskOrFrom(0))
            /\ \A k \in Bits :
                   BitOf(SourceValue(l), k) = 1 =>
                       IF \E a \in menu : a.index = k
                       THEN \A m \in Modules :
                                BitOf(DestValue(m, l), k) = 1
                                    <=> m = byIndex(menu, k).module_id
                       ELSE /\ \A m \in Modules : BitOf(DestValue(m, l), k) = 0
                            /\ UntrackedDone =>
                                   /\ InList(<<k, FiringLines(k)>>, errors)
                                   /\ InList(<<"untracked", k, FiringLines(k)>>, sum_log)

\* a line with an owned bit and a bit without owner, each set in one line
\* only: the owner's file has the first, the scan has reported the second
C28_Witness ==
    /\ UntrackedDone
    /\ Len(testvector) >= 1
    /\ \E a \in menu :
           /\ BitOf(SourceValue(1), a.index) = 1
           /\ BitOf(DestValue(a.module_id, 1), a.index) = 1
    /\ \E k \in Bits :
           /\ \A a \in menu : a.index # k
           /\ BitOf(SourceValue(1), k) = 1
           /\ FiringLines(k) = 1
           /\ InList(<<k, 1>>, errors)

(***************************************************************************)
(* C29: the partitioner changes only the last two fields of a line: the    *)
(* destination file has as many lines as the source, in the same order, in *)
(* every line the tokens before the firing mask and the fin-or flag are    *)
(* those of the source line, and the source file is not modified.          *)
(***************************************************************************)
\* line l of the file of module m is line l of the source but for the last
\* two tokens
SameButLastTwo(m, l) ==
    /\ l <= Len(testvector)
    /\ Len(Dest(m)[l]) = Len(testvector[l])
    /\ \A k \in 1 .. Len(testvector[l]) - 2 : Dest(m)[l][k] = testvector[l][k]

C29_DestinationFrame ==
    \A m \in Modules :
        Written(m) =>
            /\ Len(Dest(m)) = Len(testvector)
            /\ \A l \in 1 .. Len(Dest(m)) : SameButLastTwo(m, l)

C29_OnlyLastTwoFieldsChange ==
    []C29_DestinationFrame /\ [][testvector' = testvector]_vars

(***************************************************************************)
(* C30: when the indices reported in the counts of the modules are exactly *)
(* 0 .. K-1 and every index of the menu is below K, then after the         *)
(* conversion pass every algos_sim[index] and algos_tv[index] is a         *)
(* non-empty list of (position, count) pairs: the pairs of the non-zero    *)
(* counts in the order of the reports, or the single pair (-1, 0) when     *)
(* every reported count is zero; the lookups of the conversion and of the  *)
(* verdict loop are defined.                                               *)
(***************************************************************************)
ReportedIndices == {ReportedFrom(0)[c].algo_index : c \in 1 .. Len(ReportedFrom(0))}

ContiguousReports ==
    /\ ReportedIndices = 0 .. (Cardinality(ReportedIndices) - 1)
    /\ \A a \in menu : a.index < Cardinality(ReportedIndices)

ConversionDone ==
    \/ pc \in {"verdict", "jsonscan", "untracked", "multiple", "finish", "done"}
    \/ pc = "raised" /\ exception[1] = "AttributeError"

\* liste holds the pairs of the non-zero counts of the reports for index,
\* by ascending position, or the pair (-1, 0) when there is none
IsConverted(liste, index, field) ==
    LET reps == ReportsOf(index)
        nz == {k \in 1 .. Len(reps) : reps[k][field] # 0}
    IN  /\ Len(liste) >= 1
        /\ \A e \in 1 .. Len(liste) : Len(liste[e]) = 2
        /\ IF nz = {} THEN liste = <<<<-1, 0>>>>
           ELSE /\ Len(liste) = Cardinality(nz)
                /\ \A k \in nz : InList(<<k - 1, reps[k][field]>>, liste)
                /\ \A e, f \in 1 .. Len(liste) : e < f => liste[e][1] < liste[f][1]

====
